---- MODULE Spec2Model ----
(***************************************************************************)
(* GroqVisionModel (swarmauri/llms/concrete/GroqVisionModel.py): the unary *)
(* path predict/apredict, the streaming path stream/astream and the batch  *)
(* runner abatch, as state machines over Conversation histories.           *)
(*                                                                         *)
(* Text is a sequence of tokens.  A stream line is a sequence of tokens    *)
(* too: the literal 'data: ', the opening and closing text of a JSON event *)
(* record, and the characters of the delta text between them.              *)
(***************************************************************************)
EXTENDS Integers, Sequences, FiniteSets, TLC

\* ---- bounds of the model ----
MaxLines == 3      \* lines the transport delivers in one streaming session
NConv == 3         \* Conversation objects the caller owns
MaxReq == 3        \* requests in one batch
MaxPermits == 2    \* largest max_concurrent tried
MaxCalls == 2      \* predict()/apredict() calls the caller makes in a row
MaxData == 2       \* texts in one transform() call, items in one response

Convs == 1..NConv

None == "<None>"

\* ---- messages and conversations ------------------------------------------

\* Content is either a str ([str |-> text]) or a list of typed blocks
\* ([list |-> blocks]).
TextBlock(t) == [type |-> "text", text |-> t]

HumanMessage(content, name) == [role |-> "user", name |-> name, content |-> content]

AgentMessage(content, usage) ==
    [role |-> "assistant", name |-> None, content |-> [str |-> content], usage |-> usage]

\* The history each Conversation holds when the caller first uses it.
InitHistory(c) ==
    IF c % 2 = 1
    THEN <<HumanMessage([list |-> <<TextBlock(<<"a">>)>>], None)>>
    ELSE <<HumanMessage([str |-> <<"b">>], "bob"),
           AgentMessage(<<"a">>, None),
           HumanMessage([str |-> <<"a">>], None)>>

\* message.model_dump(include=["content", "role", "name"], exclude_none=True)
\* A slip: the whole message is dumped, None-valued fields included.
ModelDumpKeepsNone(message) == message

ModelDump(message) ==
    [k \in {"role", "content"} \cup (IF message.name = None THEN {} ELSE {"name"})
        |-> message[k]]

FormatContent(content) ==
    IF "list" \in DOMAIN content
    THEN [list |-> [i \in 1..Len(content.list) |->
                      [type |-> content.list[i].type] @@ content.list[i]]]
    ELSE content

FormatMessage(message) ==
    LET formatted_message == ModelDump(message)
    IN  [formatted_message EXCEPT !.content = FormatContent(formatted_message.content)]

\* _format_messages
FormatMessages(messages) == [i \in 1..Len(messages) |-> FormatMessage(messages[i])]

\* ---- the stream lines ----------------------------------------------------

Prefix == "data: "
DeltaOpen == "{choices:[{delta:{content:'"
DeltaClose == "'}}]}"
EmptyDeltaJson == "{choices:[{delta:{}}]}"
RoleDeltaJson == "{choices:[{delta:{role:'assistant'}}]}"
ErrorJson == "{error:{}}"
DoneMark == "[DONE]"

Chars == {"a", "b"}

\* The JSON text of an event record whose delta carries the text t.
DeltaJson(t) == <<DeltaOpen>> \o t \o <<DeltaClose>>

\* Delta texts the provider sends; one holds the characters 'data: ' itself.
Texts == {<<"a">>, <<"b">>, <<"a", Prefix, "b">>, <<>>}

\* What follows the prefix on a line: nothing (keep-alive), the end marker,
\* a record cut short, a record with an empty delta, a record whose delta
\* has a role and no content, a record without choices, a text delta.
Bodies ==
    {<<>>, <<DoneMark>>, <<DeltaOpen, "a">>, <<EmptyDeltaJson>>,
     <<RoleDeltaJson>>, <<ErrorJson>>}
    \cup {DeltaJson(t) : t \in Texts}

Lines == {<<>>, DeltaJson(<<"b">>)} \cup {<<Prefix>> \o b : b \in Bodies}

\* line.replace('data: ', ''): every occurrence is removed.
Replace(line) == SelectSeq(line, LAMBDA tok : tok # Prefix)

JSONDecodeError == [ok |-> FALSE]
Decoded(v) == [ok |-> TRUE, value |-> v]

IsText(s) == \A i \in 1..Len(s) : s[i] \in Chars \cup {Prefix}

\* json.loads
JsonLoads(s) ==
    IF s = <<EmptyDeltaJson>> THEN Decoded([choices |-> <<[delta |-> << >>]>>])
    ELSE IF s = <<RoleDeltaJson>>
        THEN Decoded([choices |-> <<[delta |-> [role |-> "assistant"]]>>])
    ELSE IF s = <<ErrorJson>> THEN Decoded([error |-> << >>])
    ELSE IF /\ Len(s) >= 2
            /\ s[1] = DeltaOpen
            /\ s[Len(s)] = DeltaClose
            /\ IsText(SubSeq(s, 2, Len(s) - 1))
        THEN Decoded([choices |-> <<[delta |-> [content |-> SubSeq(s, 2, Len(s) - 1)]]>>])
    ELSE JSONDecodeError

Skip(acc) == [raised |-> None, message_content |-> acc, yields |-> <<>>]
Raise(acc, e) == [raised |-> e, message_content |-> acc, yields |-> <<>>]
\* A slip: the delta is put in front of the accumulated text.
EmitPrepended(acc, delta) ==
    [raised |-> None, message_content |-> delta \o acc, yields |-> <<delta>>]

Emit(acc, delta) == [raised |-> None, message_content |-> acc \o delta, yields |-> <<delta>>]

\* What the loop body does with a decoded chunk.
OnChunk(acc, chunk) ==
    IF "choices" \notin DOMAIN chunk THEN Raise(acc, "KeyError")
    ELSE LET delta == chunk.choices[1].delta
         IN  IF DOMAIN delta = {} THEN Skip(acc)
             ELSE IF "content" \notin DOMAIN delta THEN Raise(acc, "KeyError")
             ELSE Emit(acc, delta.content)

\* A slip: no except clause, the decode error leaves the generator.
OnDecodeErrorRaises(acc) == Raise(acc, "JSONDecodeError")

\* except json.JSONDecodeError: pass
OnDecodeError(acc) == Skip(acc)

\* One pass of the loop body of stream()/astream() over a line.
ProcessLine(acc, line) ==
    LET json_str == Replace(line)
    IN  IF json_str = <<>> THEN Skip(acc)
        ELSE LET r == JsonLoads(json_str)
             IN  IF r.ok THEN OnChunk(acc, r.value) ELSE OnDecodeError(acc)

\* ---- state ----------------------------------------------------------------

VARIABLES
    history,          \* Conversation.history of each Conversation
    before,           \* the histories when the current call was made
    posts,            \* number of requests handed to the transport so far
    gen,              \* the generator stream()/astream() returned
    smode,            \* "stream" or "astream"
    sconv,            \* the Conversation passed to stream()/astream()
    payload,          \* data["messages"] of the last request
    message_content,  \* the accumulator of the streaming session
    yielded,          \* the fragments the caller received, in order
    lines,            \* the lines the transport delivered, in order
    serr,             \* the exception the generator raised
    ppc,              \* where the predict()/apredict() call is
    pmode,            \* "predict" or "apredict"
    pconv,            \* the Conversation passed to predict()/apredict()
    presp,            \* what the transport answered
    perr,             \* the exception predict()/apredict() raised
    pret,             \* the Conversation predict()/apredict() returned
    posts0,           \* posts when the current call was made
    bmode,            \* "batch" or "abatch"
    bpc,              \* where the abatch() call is
    conversations,    \* the list passed to abatch()
    max_concurrent,   \* the max_concurrent passed to abatch()
    semaphore,        \* the value of the Semaphore: the free permits
    task,             \* where each process_conversation task is
    tpayload,         \* data["messages"] of each task's request
    tresp,            \* what the transport answered to each task
    tret,             \* the Conversation each task returned
    completed,        \* the tasks that have finished, in order of finishing
    results,          \* the list abatch() returned
    berr,             \* the exception abatch() raised
    apc,              \* where the construction of the adapter is
    akind,            \* "VoyageEmbedding" or "GroqVisionModel"
    amodel,           \* the model identifier given to the constructor
    aerr,             \* the exception the constructor raised
    vcall,            \* where the transform() call is
    vdata,            \* the list passed to transform()
    vresp,            \* what the transport answered to transform()
    vout,             \* the list transform() returned
    verr              \* the exception transform() raised

streamVars == <<gen, smode, sconv, message_content, yielded, lines, serr>>

predictVars == <<ppc, pmode, pconv, presp, perr, pret>>

batchVars == <<bmode, bpc, conversations, max_concurrent, semaphore, task, tpayload, tresp,
               tret, completed, results, berr>>

adapterVars == <<apc, akind, amodel, aerr, vcall, vdata, vresp, vout, verr>>

vars == <<history, before, posts, posts0, payload, streamVars, predictVars, batchVars,
          adapterVars>>

Init ==
    /\ history = [c \in Convs |-> InitHistory(c)]
    /\ before = [c \in Convs |-> InitHistory(c)]
    /\ posts = 0
    /\ payload = <<>>
    /\ gen = "none"
    /\ smode = None
    /\ sconv = 0
    /\ message_content = <<>>
    /\ yielded = <<>>
    /\ lines = <<>>
    /\ serr = None
    /\ ppc = "idle"
    /\ pmode = None
    /\ pconv = 0
    /\ presp = << >>
    /\ perr = None
    /\ pret = 0
    /\ posts0 = 0
    /\ bmode = None
    /\ bpc = "idle"
    /\ conversations = << >>
    /\ max_concurrent = 0
    /\ semaphore = 0
    /\ task = << >>
    /\ tpayload = << >>
    /\ tresp = << >>
    /\ tret = << >>
    /\ completed = << >>
    /\ results = << >>
    /\ berr = None
    /\ apc = "none"
    /\ akind = None
    /\ amodel = None
    /\ aerr = None
    /\ vcall = "idle"
    /\ vdata = << >>
    /\ vresp = << >>
    /\ vout = << >>
    /\ verr = None

\* A slip: the message is put at the head of the history.
AddMessageInFront(h, c, message) == [h EXCEPT ![c] = <<message>> \o h[c]]

\* conversation.add_message(message)
AddMessage(h, c, message) == [h EXCEPT ![c] = Append(h[c], message)]

\* ---- stream() and astream() ------------------------------------------------

\* The call makes the generator; no line of the body has run.
StreamCall(c, m) ==
    /\ gen = "none"
    /\ gen' = "created"
    /\ smode' = m
    /\ sconv' = c
    /\ before' = history
    /\ UNCHANGED <<posts0, predictVars, batchVars, adapterVars>>
    /\ UNCHANGED <<history, posts, payload, message_content, yielded, lines, serr>>

\* First resumption: the messages are formatted and the request is posted.
StreamPost ==
    /\ gen = "created"
    /\ payload' = FormatMessages(history[sconv])
    /\ posts' = posts + 1
    /\ gen' = "posted"
    /\ UNCHANGED <<posts0, predictVars, batchVars, adapterVars>>
    /\ UNCHANGED <<history, before, smode, sconv, message_content, yielded, lines, serr>>

\* The post fails, or response.raise_for_status() raises.
StreamPostFails ==
    /\ gen = "posted"
    /\ gen' = "raised"
    /\ serr' = "HTTPError"
    /\ UNCHANGED <<posts0, predictVars, batchVars, adapterVars>>
    /\ UNCHANGED <<history, before, posts, payload, smode, sconv, message_content,
                   yielded, lines>>

\* The status is a success: message_content = "" and the loop is entered.
StreamPostOk ==
    /\ gen = "posted"
    /\ message_content' = <<>>
    /\ gen' = "iterating"
    /\ UNCHANGED <<posts0, predictVars, batchVars, adapterVars>>
    /\ UNCHANGED <<history, before, posts, payload, smode, sconv, yielded, lines, serr>>

\* The transport delivers a line and the loop body runs over it: the
\* generator is suspended at the yield, goes on to the next line, or raises.
ReadLine(line) ==
    /\ gen = "iterating"
    /\ Len(lines) < MaxLines
    /\ lines' = Append(lines, line)
    /\ LET r == ProcessLine(message_content, line)
       IN  /\ message_content' = r.message_content
           /\ yielded' = yielded \o r.yields
           /\ serr' = r.raised
           /\ gen' = IF r.raised # None THEN "raised"
                     ELSE IF r.yields # <<>> THEN "suspended"
                     ELSE "iterating"
    /\ UNCHANGED <<posts0, predictVars, batchVars, adapterVars>>
    /\ UNCHANGED <<history, before, posts, payload, smode, sconv>>

\* The caller asks for the next fragment.
Resume ==
    /\ gen = "suspended"
    /\ gen' = "iterating"
    /\ UNCHANGED <<posts0, predictVars, batchVars, adapterVars>>
    /\ UNCHANGED <<history, before, posts, payload, smode, sconv, message_content,
                   yielded, lines, serr>>

\* A slip: a failure of the transport is taken for the end of the stream.
IterLinesFailsCommits ==
    /\ gen = "iterating"
    /\ smode = "stream"
    /\ gen' = "raised"
    /\ serr' = "ChunkedEncodingError"
    /\ history' = AddMessage(history, sconv, AgentMessage(message_content, None))
    /\ UNCHANGED <<posts0, predictVars, batchVars, adapterVars>>
    /\ UNCHANGED <<before, posts, payload, smode, sconv, message_content, yielded, lines>>

\* response.iter_lines() raises while the body is being read.  astream()
\* has the whole body once client.post() has returned, so only stream()
\* can fail here.
IterLinesFails ==
    /\ gen = "iterating"
    /\ smode = "stream"
    /\ gen' = "raised"
    /\ serr' = "ChunkedEncodingError"
    /\ UNCHANGED <<posts0, predictVars, batchVars, adapterVars>>
    /\ UNCHANGED <<history, before, posts, payload, smode, sconv, message_content,
                   yielded, lines>>

\* A slip: the message is appended a second time.
FinalizeTwice(h, c, content) ==
    AddMessage(AddMessage(h, c, AgentMessage(content, None)), c,
               AgentMessage(content, None))

\* The history after the loop has ended.
Finalize(h, c, content) == AddMessage(h, c, AgentMessage(content, None))

\* The transport stream ends: the loop is left, the message is appended and
\* the generator is exhausted.
EndOfStream ==
    /\ gen = "iterating"
    /\ history' = Finalize(history, sconv, message_content)
    /\ gen' = "exhausted"
    /\ UNCHANGED <<posts0, predictVars, batchVars, adapterVars>>
    /\ UNCHANGED <<before, posts, payload, smode, sconv, message_content, yielded,
                   lines, serr>>

\* A slip: the append sits in a finally clause and runs on GeneratorExit.
CloseCommits ==
    /\ gen \in {"created", "suspended"}
    /\ gen' = "closed"
    /\ history' = AddMessage(history, sconv, AgentMessage(message_content, None))
    /\ UNCHANGED <<posts0, predictVars, batchVars, adapterVars>>
    /\ UNCHANGED <<before, posts, payload, smode, sconv, message_content, yielded,
                   lines, serr>>

\* The caller closes or drops the generator: GeneratorExit is thrown at the
\* yield (or the body never starts), no except clause catches it and the
\* with block releases the connection.
Close ==
    /\ gen \in {"created", "suspended"}
    /\ gen' = "closed"
    /\ UNCHANGED <<posts0, predictVars, batchVars, adapterVars>>
    /\ UNCHANGED <<history, before, posts, payload, smode, sconv, message_content,
                   yielded, lines, serr>>

StreamNext ==
    \/ \E c \in Convs, m \in {"stream", "astream"} : StreamCall(c, m)
    \/ StreamPost
    \/ StreamPostFails
    \/ StreamPostOk
    \/ \E line \in Lines : ReadLine(line)
    \/ Resume
    \/ IterLinesFails
    \/ EndOfStream
    \/ Close

StreamSpec == Init /\ [][StreamNext]_vars

\* ---- predict() and apredict() ----------------------------------------------

UsageOk == [prompt_tokens |-> [int |-> 1]]
UsageBad == [prompt_tokens |-> [str |-> "x"]]

Completion(t) == [choices |-> <<[message |-> [content |-> t]]>>]

\* The documents response.json() gives: a completion with valid usage, with
\* no usage, with malformed usage; an error document; an empty choices
\* list; a message without content.
Docs ==
    {Completion(t) @@ [usage |-> UsageOk] : t \in {<<"a">>, <<"b">>}}
    \cup {Completion(<<"b">>),
          Completion(<<"a">>) @@ [usage |-> UsageBad],
          [error |-> << >>],
          [choices |-> << >>],
          [choices |-> <<[message |-> [role |-> "assistant"]]>>]}

\* What the transport does with a request: a failure or a non-2xx status, or
\* a document.
Responses == {[ok |-> FALSE]} \cup {[ok |-> TRUE, json |-> d] : d \in Docs}

Returns(h, c) == [raised |-> None, history |-> h, ret |-> c]
Raises(h, e) == [raised |-> e, history |-> h, ret |-> 0]

\* UsageData.model_validate(usage_data) succeeds.
UsageValid(usage_data) == \A k \in DOMAIN usage_data : "int" \in DOMAIN usage_data[k]

\* A slip: the message is appended before the usage data is validated.
AfterRequestAppendsFirst(h, c, result) ==
    IF "choices" \notin DOMAIN result THEN Raises(h, "KeyError")
    ELSE IF result.choices = << >> THEN Raises(h, "IndexError")
    ELSE IF "content" \notin DOMAIN result.choices[1].message THEN Raises(h, "KeyError")
    ELSE LET content_text == result.choices[1].message.content
             usage_data == IF "usage" \in DOMAIN result THEN result.usage ELSE << >>
             appended == AddMessage(h, c, AgentMessage(content_text, usage_data))
         IN  IF ~UsageValid(usage_data) THEN Raises(appended, "ValidationError")
             ELSE Returns(appended, c)

\* A slip: the history is set to the new message instead of extended by it.
AfterRequestResetsHistory(h, c, result) ==
    IF "choices" \notin DOMAIN result THEN Raises(h, "KeyError")
    ELSE IF result.choices = << >> THEN Raises(h, "IndexError")
    ELSE IF "content" \notin DOMAIN result.choices[1].message THEN Raises(h, "KeyError")
    ELSE LET content_text == result.choices[1].message.content
             usage_data == IF "usage" \in DOMAIN result THEN result.usage ELSE << >>
         IN  IF ~UsageValid(usage_data) THEN Raises(h, "ValidationError")
             ELSE Returns([h EXCEPT ![c] = <<AgentMessage(content_text, usage_data)>>], c)

\* predict()/apredict() from the result of _make_request on.
AfterRequest(h, c, result) ==
    IF "choices" \notin DOMAIN result THEN Raises(h, "KeyError")
    ELSE IF result.choices = << >> THEN Raises(h, "IndexError")
    ELSE IF "content" \notin DOMAIN result.choices[1].message THEN Raises(h, "KeyError")
    ELSE LET content_text == result.choices[1].message.content
             usage_data == IF "usage" \in DOMAIN result THEN result.usage ELSE << >>
         IN  IF ~UsageValid(usage_data) THEN Raises(h, "ValidationError")
             ELSE Returns(AddMessage(h, c, AgentMessage(content_text, usage_data)), c)

\* _make_request answered resp: raise_for_status() raises, or the rest of
\* predict()/apredict() runs on response.json().
OnResponse(h, c, resp) ==
    IF ~resp.ok THEN Raises(h, "HTTPError") ELSE AfterRequest(h, c, resp.json)

\* The call formats the messages and hands the request to the transport.
PredictCall(c, m) ==
    /\ ppc \in {"idle", "returned", "raised"}
    /\ posts < MaxCalls
    /\ ppc' = "requested"
    /\ pmode' = m
    /\ pconv' = c
    /\ before' = history
    /\ posts0' = posts
    /\ payload' = FormatMessages(history[c])
    /\ posts' = posts + 1
    /\ perr' = None
    /\ pret' = 0
    /\ presp' = << >>
    /\ UNCHANGED <<history, streamVars, batchVars, adapterVars>>

\* The transport answers and the call runs to its end.
PredictResponse(resp) ==
    /\ ppc = "requested"
    /\ presp' = resp
    /\ LET r == OnResponse(history, pconv, resp)
       IN  /\ history' = r.history
           /\ perr' = r.raised
           /\ pret' = r.ret
           /\ ppc' = IF r.raised = None THEN "returned" ELSE "raised"
    /\ UNCHANGED <<before, posts, posts0, payload, pmode, pconv, streamVars, batchVars, adapterVars>>

PredictNext ==
    \/ \E c \in Convs, m \in {"predict", "apredict"} : PredictCall(c, m)
    \/ \E resp \in Responses : PredictResponse(resp)

PredictSpec == Init /\ [][PredictNext]_vars

\* ---- abatch() ----------------------------------------------------------------

\* The lists of Conversations the caller passes: the first n Conversations
\* in turn (a list longer than NConv holds a Conversation twice), and the
\* same lists with the first Conversation again in the last place.
ConversationList(n) == [i \in 1..n |-> ((i - 1) % NConv) + 1]

AliasedList(n) == [i \in 1..n |-> IF i = n THEN 1 ELSE ConversationList(n)[i]]

ConversationLists ==
    {ConversationList(n) : n \in 0..MaxReq} \cup {AliasedList(n) : n \in 2..MaxReq}

\* What the transport answers to the request of a batch item.
BatchResponses ==
    {[ok |-> FALSE],
     [ok |-> TRUE, json |-> Completion(<<"a">>) @@ [usage |-> UsageOk]],
     [ok |-> TRUE, json |-> Completion(<<"b">>)]}

\* A slip: the last permit is never handed out.
AdmitsAboveOne(value) == value > 1

\* A slip: the gate is made anew for each item, so it never holds one back.
AdmitsAlways(value) == TRUE

\* async with semaphore: the item enters when a permit is free.
Admits(value) == value > 0

\* A slip: the permit is given back after the call and not in a finally
\* clause or a with block, so an item that raises keeps it.
ReleaseOnSuccess(value, raised) == IF raised = None THEN value + 1 ELSE value

\* The exit of async with semaphore, taken on every way out of the block.
Release(value, raised) == value + 1

\* A slip: the results are collected as the items finish.
GatherInCompletionOrder(ret, order) == [k \in 1..Len(order) |-> ret[order[k]]]

\* asyncio.gather(*tasks): the return values in the order of the tasks.
Gather(ret, order) == [i \in 1..Len(ret) |-> ret[i]]

\* abatch(conversations, max_concurrent=N): the Semaphore is made (a
\* negative value is refused), one task per Conversation is made and
\* gathered.
AbatchCall(cs, N) ==
    /\ bpc = "idle"
    /\ bmode' = "abatch"
    /\ conversations' = cs
    /\ max_concurrent' = N
    /\ before' = history
    /\ posts0' = posts
    /\ IF N < 0
       THEN /\ bpc' = "raised"
            /\ berr' = "ValueError"
            /\ UNCHANGED <<semaphore, task, tpayload, tresp, tret>>
       ELSE /\ bpc' = "gathering"
            /\ semaphore' = N
            /\ task' = [i \in 1..Len(cs) |-> "waiting"]
            /\ tpayload' = [i \in 1..Len(cs) |-> << >>]
            /\ tresp' = [i \in 1..Len(cs) |-> << >>]
            /\ tret' = [i \in 1..Len(cs) |-> 0]
            /\ berr' = None
    /\ UNCHANGED <<history, posts, payload, completed, results, streamVars, predictVars, adapterVars>>

\* Task i passes the gate and apredict() starts: the messages are formatted
\* and the request goes to the transport in a thread.
Admit(i) ==
    /\ task[i] = "waiting"
    /\ Admits(semaphore)
    /\ semaphore' = semaphore - 1
    /\ task' = [task EXCEPT ![i] = "running"]
    /\ tpayload' = [tpayload EXCEPT ![i] = FormatMessages(history[conversations[i]])]
    /\ posts' = posts + 1
    /\ UNCHANGED <<history, before, posts0, payload, bpc, conversations,
                   max_concurrent, bmode,
                   tresp, tret, completed, results, berr, streamVars, predictVars, adapterVars>>

\* A slip: the first failure cancels the tasks that have not finished, as a
\* task group does.
CompleteCancelsSiblings(i, resp) ==
    /\ task[i] = "running"
    /\ tresp' = [tresp EXCEPT ![i] = resp]
    /\ LET r == OnResponse(history, conversations[i], resp)
           ended == IF r.raised = None THEN {i}
                    ELSE {k \in DOMAIN task : k = i \/ task[k] \in {"waiting", "running"}}
       IN  /\ history' = r.history
           /\ tret' = [tret EXCEPT ![i] = r.ret]
           /\ semaphore' = semaphore + Cardinality({k \in ended : task[k] = "running"})
           /\ completed' = Append(completed, i)
           /\ task' = [k \in DOMAIN task |->
                         IF k = i THEN (IF r.raised = None THEN "done" ELSE "failed")
                         ELSE IF k \in ended THEN "cancelled" ELSE task[k]]
           /\ IF r.raised # None /\ bpc = "gathering"
              THEN bpc' = "raised" /\ berr' = r.raised
              ELSE UNCHANGED <<bpc, berr>>
    /\ UNCHANGED <<before, posts, posts0, payload, conversations,
                   max_concurrent, bmode,
                   tpayload, results, streamVars, predictVars, adapterVars>>

\* A slip: the task body reads the loop variable when it runs and not when
\* it is made, so every task works on the last Conversation of the list.
CompleteOnLastConversation(i, resp) ==
    /\ task[i] = "running"
    /\ tresp' = [tresp EXCEPT ![i] = resp]
    /\ completed' = Append(completed, i)
    /\ LET r == OnResponse(history, conversations[Len(conversations)], resp)
       IN  /\ history' = r.history
           /\ tret' = [tret EXCEPT ![i] = r.ret]
           /\ semaphore' = Release(semaphore, r.raised)
           /\ task' = [task EXCEPT ![i] = IF r.raised = None THEN "done" ELSE "failed"]
           /\ IF r.raised # None /\ bpc = "gathering"
              THEN bpc' = "raised" /\ berr' = r.raised
              ELSE UNCHANGED <<bpc, berr>>
    /\ UNCHANGED <<before, posts, posts0, payload, conversations,
                   max_concurrent, bmode, tpayload, results, streamVars, predictVars,
                   adapterVars>>

\* The transport answers task i: apredict() runs to its end, the permit is
\* released on the way out, and gather() hands the first exception of a task
\* to abatch() at once; the other tasks go on.
Complete(i, resp) ==
    /\ task[i] = "running"
    /\ tresp' = [tresp EXCEPT ![i] = resp]
    /\ completed' = Append(completed, i)
    /\ LET r == OnResponse(history, conversations[i], resp)
       IN  /\ history' = r.history
           /\ tret' = [tret EXCEPT ![i] = r.ret]
           /\ semaphore' = Release(semaphore, r.raised)
           /\ task' = [task EXCEPT ![i] = IF r.raised = None THEN "done" ELSE "failed"]
           /\ IF r.raised # None /\ bpc = "gathering"
              THEN bpc' = "raised" /\ berr' = r.raised
              ELSE UNCHANGED <<bpc, berr>>
    /\ UNCHANGED <<before, posts, posts0, payload, conversations,
                   max_concurrent, bmode,
                   tpayload, results, streamVars, predictVars, adapterVars>>

\* Task i is cancelled.  Waiting at the gate, it leaves the queue and holds
\* no permit; inside apredict(), CancelledError is raised at the await, the
\* with block gives the permit back and the answer of the thread is dropped.
\* gather() hands the CancelledError to abatch() as it does an exception.
CancelItem(i) ==
    /\ task[i] \in {"waiting", "running"}
    /\ task' = [task EXCEPT ![i] = "cancelled"]
    /\ semaphore' = IF task[i] = "running" THEN Release(semaphore, "CancelledError")
                    ELSE semaphore
    /\ completed' = Append(completed, i)
    /\ IF bpc = "gathering"
       THEN bpc' = "raised" /\ berr' = "CancelledError"
       ELSE UNCHANGED <<bpc, berr>>
    /\ UNCHANGED <<history, before, posts, posts0, payload, conversations,
                   max_concurrent, bmode, tpayload, tresp, tret, results, streamVars,
                   predictVars, adapterVars>>

\* Every task has returned: gather() gives the list and abatch() returns it.
AbatchReturn ==
    /\ bpc = "gathering"
    /\ \A i \in DOMAIN task : task[i] = "done"
    /\ results' = Gather(tret, completed)
    /\ bpc' = "returned"
    /\ UNCHANGED <<history, before, posts, posts0, payload, conversations,
                   max_concurrent, bmode, semaphore, task, tpayload, tresp, tret, completed,
                   berr, streamVars, predictVars, adapterVars>>

\* abatch() on an event loop where nothing cancels a task.
AbatchRun ==
    \/ \E cs \in ConversationLists, N \in -1..MaxPermits : AbatchCall(cs, N)
    \/ \E i \in DOMAIN task : Admit(i)
    \/ \E i \in DOMAIN task, resp \in BatchResponses : Complete(i, resp)
    \/ AbatchReturn

AbatchNext ==
    \/ AbatchRun
    \/ \E i \in DOMAIN task : CancelItem(i)

AbatchSpec == Init /\ [][AbatchNext]_vars

\* The event loop runs every task that can run, the gate wakes its waiters
\* and every call to the transport comes to an end.
AbatchFairness ==
    /\ WF_vars(\E i \in DOMAIN task : Admit(i))
    /\ \A i \in 1..MaxReq :
          WF_vars(i \in DOMAIN task /\ \E resp \in BatchResponses : Complete(i, resp))
    /\ WF_vars(AbatchReturn)

FairAbatchSpec == Init /\ [][AbatchRun]_vars /\ AbatchFairness

\* ---- batch() -----------------------------------------------------------------

\* A slip: the list is walked from its end.
NextItemFromEnd(res, cs) == Len(cs) - Len(res)

\* for conversation in conversations: the position the loop is at when res
\* holds the results so far.
NextItem(res, cs) == Len(res) + 1

\* batch(conversations): results = [] and the loop starts.
BatchCall(cs) ==
    /\ bpc = "idle"
    /\ bpc' = "looping"
    /\ bmode' = "batch"
    /\ conversations' = cs
    /\ results' = << >>
    /\ task' = [i \in 1..Len(cs) |-> "waiting"]
    /\ tpayload' = [i \in 1..Len(cs) |-> << >>]
    /\ tresp' = [i \in 1..Len(cs) |-> << >>]
    /\ before' = history
    /\ posts0' = posts
    /\ berr' = None
    /\ UNCHANGED <<history, posts, payload, max_concurrent, semaphore, tret, completed,
                   streamVars, predictVars, adapterVars>>

\* The loop calls predict() on the next Conversation: the messages are
\* formatted and the request goes out; the loop waits in the call.
BatchPredict ==
    /\ bpc = "looping"
    /\ \A k \in DOMAIN task : task[k] # "running"
    /\ LET i == NextItem(results, conversations)
       IN  /\ i \in DOMAIN task
           /\ task[i] = "waiting"
           /\ task' = [task EXCEPT ![i] = "running"]
           /\ tpayload' = [tpayload EXCEPT ![i] = FormatMessages(history[conversations[i]])]
    /\ posts' = posts + 1
    /\ UNCHANGED <<history, before, posts0, payload, bpc, conversations,
                   max_concurrent, bmode,
                   semaphore, tresp, tret, completed, results, berr, streamVars,
                   predictVars, adapterVars>>

\* A slip: the exception of predict() is swallowed and the loop goes on to
\* the next Conversation.
BatchResponseGoesOn(resp) ==
    /\ bpc = "looping"
    /\ \E i \in DOMAIN task :
          /\ task[i] = "running"
          /\ tresp' = [tresp EXCEPT ![i] = resp]
          /\ LET r == OnResponse(history, conversations[i], resp)
             IN  /\ history' = r.history
                 /\ task' = [task EXCEPT ![i] = IF r.raised = None THEN "done" ELSE "failed"]
                 /\ results' = Append(results, conversations[i])
                 /\ UNCHANGED <<bpc, berr>>
    /\ UNCHANGED <<before, posts, posts0, payload, conversations,
                   max_concurrent, bmode,
                   semaphore, tpayload, tret, completed, streamVars, predictVars,
                   adapterVars>>

\* The transport answers: predict() runs to its end.  Its return value is
\* appended to results; its exception leaves the loop and batch().
BatchResponse(resp) ==
    /\ bpc = "looping"
    /\ \E i \in DOMAIN task :
          /\ task[i] = "running"
          /\ tresp' = [tresp EXCEPT ![i] = resp]
          /\ LET r == OnResponse(history, conversations[i], resp)
             IN  /\ history' = r.history
                 /\ task' = [task EXCEPT ![i] = IF r.raised = None THEN "done" ELSE "failed"]
                 /\ IF r.raised = None
                    THEN /\ results' = Append(results, r.ret)
                         /\ UNCHANGED <<bpc, berr>>
                    ELSE /\ bpc' = "raised"
                         /\ berr' = r.raised
                         /\ UNCHANGED results
    /\ UNCHANGED <<before, posts, posts0, payload, conversations,
                   max_concurrent, bmode,
                   semaphore, tpayload, tret, completed, streamVars, predictVars,
                   adapterVars>>

\* The loop is over: return results.
BatchReturn ==
    /\ bpc = "looping"
    /\ Len(results) = Len(conversations)
    /\ bpc' = "returned"
    /\ UNCHANGED <<history, before, posts, posts0, payload, conversations,
                   max_concurrent, bmode, semaphore, task, tpayload, tresp, tret, completed,
                   results, berr, streamVars, predictVars, adapterVars>>

BatchNext ==
    \/ \E cs \in ConversationLists : BatchCall(cs)
    \/ BatchPredict
    \/ \E resp \in Responses : BatchResponse(resp)
    \/ BatchReturn

BatchSpec == Init /\ [][BatchNext]_vars

\* ---- construction of the adapters, VoyageEmbedding.transform() ---------------

\* VoyageEmbedding._allowed_models
VoyageAllowedModels ==
    {"voyage-2", "voyage-large-2", "voyage-code-2", "voyage-lite-02-instruct"}

\* GroqVisionModel.allowed_models
GroqAllowedModels == {"llama-3.2-11b-vision-preview"}

\* The identifiers a caller passes to a constructor.
ModelNames == VoyageAllowedModels \cup GroqAllowedModels \cup {"voyage-3", ""}

\* A slip: only a missing identifier is refused.
ModelRefusedIfEmpty(model, allowed) == model = ""

\* if model not in self._allowed_models
ModelRefused(model, allowed) == model \notin allowed

\* VoyageEmbedding(api_key, model): the base class is initialised, the
\* identifier is checked, and then the model and the headers are stored.
VoyageInit(model) ==
    /\ apc = "none"
    /\ akind' = "VoyageEmbedding"
    /\ amodel' = model
    /\ IF ModelRefused(model, VoyageAllowedModels)
       THEN apc' = "raised" /\ aerr' = "ValueError"
       ELSE apc' = "constructed" /\ aerr' = None
    /\ UNCHANGED <<history, before, posts, posts0, payload, streamVars, predictVars,
                   batchVars, vcall, vdata, vresp, vout, verr>>

\* The identifier check the chat adapter inherits: a name outside
\* allowed_models fails the construction.
GroqNameRefused(name) == name \notin GroqAllowedModels

\* GroqVisionModel(api_key=..., name=name)
GroqInit(name) ==
    /\ apc = "none"
    /\ akind' = "GroqVisionModel"
    /\ amodel' = name
    /\ IF GroqNameRefused(name)
       THEN apc' = "raised" /\ aerr' = "ValueError"
       ELSE apc' = "constructed" /\ aerr' = None
    /\ UNCHANGED <<history, before, posts, posts0, payload, streamVars, predictVars,
                   batchVars, vcall, vdata, vresp, vout, verr>>

\* The sequences of at most n elements of S.
RECURSIVE SeqsUpTo(_, _)
SeqsUpTo(S, n) ==
    IF n = 0 THEN {<< >>}
    ELSE LET shorter == SeqsUpTo(S, n - 1)
         IN  shorter \cup {Append(q, x) : q \in shorter, x \in S}

\* The lists of texts given to transform().
DataLists == SeqsUpTo({"x", "y"}, MaxData)

\* The items of the "data" list of a response: an object with an embedding,
\* an object without one, an item that is no object, an object whose
\* embedding is no list of numbers.
GoodItem == [obj |-> [embedding |-> [list |-> <<1, 2>>]]]
NoEmbeddingItem == [obj |-> [index |-> 0]]
NotObjectItem == [str |-> "x"]
BadEmbeddingItem == [obj |-> [embedding |-> [str |-> "x"]]]

VoyageItems == {GoodItem, NoEmbeddingItem, NotObjectItem, BadEmbeddingItem}

\* What the transport does with the request: the post or the status check
\* raises, the body is no JSON, or response.json() gives a document: an
\* object with a "data" list, with "data": null, without "data", or a list.
VoyageResponses ==
    {[raises |-> e] : e \in {"ConnectionError", "HTTPError", "JSONDecodeError"}}
    \cup {[json |-> [obj |-> [data |-> [list |-> d]]]] : d \in SeqsUpTo(VoyageItems, MaxData)}
    \cup {[json |-> [obj |-> [data |-> [null |-> TRUE]]]],
          [json |-> [obj |-> [detail |-> [str |-> "x"]]]],
          [json |-> [list |-> << >>]]}

\* Vector(value=item["embedding"]) for one item: the vector, or the
\* exception the expression raises.
ItemVector(item) ==
    IF "obj" \notin DOMAIN item THEN [raised |-> "TypeError"]
    ELSE IF "embedding" \notin DOMAIN item.obj THEN [raised |-> "KeyError"]
    ELSE IF "list" \notin DOMAIN item.obj.embedding THEN [raised |-> "ValidationError"]
    ELSE [raised |-> None, vector |-> [value |-> item.obj.embedding.list]]

\* [Vector(value=item["embedding"]) for item in result["data"]]
Embeddings(result) ==
    IF "obj" \notin DOMAIN result THEN [raised |-> "TypeError"]
    ELSE IF "data" \notin DOMAIN result.obj THEN [raised |-> "KeyError"]
    ELSE IF "list" \notin DOMAIN result.obj.data THEN [raised |-> "TypeError"]
    ELSE LET items == result.obj.data.list
             bad == {i \in 1..Len(items) : ItemVector(items[i]).raised # None}
         IN  IF bad = {}
             THEN [raised |-> None,
                   embeddings |-> [i \in 1..Len(items) |-> ItemVector(items[i]).vector]]
             ELSE [raised |-> ItemVector(items[CHOOSE i \in bad : \A j \in bad : i <= j]).raised]

\* The except clauses of transform(): a RequestException and a KeyError or
\* ValueError are raised again as ValueError; anything else passes.
VoyageExcept(e) ==
    IF e \in {"ConnectionError", "HTTPError", "JSONDecodeError"} THEN "ValueError"
    ELSE IF e \in {"KeyError", "ValueError", "ValidationError"} THEN "ValueError"
    ELSE e

\* transform(data): an empty list is answered at once, without a request;
\* else the payload is made and posted.
VoyageTransform(data) ==
    /\ apc = "constructed"
    /\ akind = "VoyageEmbedding"
    /\ vcall = "idle"
    /\ vdata' = data
    /\ IF data = << >>
       THEN /\ vcall' = "returned"
            /\ UNCHANGED <<payload, posts>>
       ELSE /\ vcall' = "requested"
            /\ payload' = [input |-> data, model |-> amodel]
            /\ posts' = posts + 1
    /\ UNCHANGED <<history, before, posts0, streamVars, predictVars, batchVars,
                   apc, akind, amodel, aerr, vresp, vout, verr>>

\* The transport answers and transform() runs to its end.
VoyageResponse(resp) ==
    /\ vcall = "requested"
    /\ vresp' = resp
    /\ LET r == IF "raises" \in DOMAIN resp THEN [raised |-> resp.raises]
                ELSE Embeddings(resp.json)
       IN  IF r.raised = None
           THEN /\ vcall' = "returned"
                /\ vout' = r.embeddings
                /\ UNCHANGED verr
           ELSE /\ vcall' = "raised"
                /\ verr' = VoyageExcept(r.raised)
                /\ UNCHANGED vout
    /\ UNCHANGED <<history, before, posts, posts0, payload, streamVars, predictVars,
                   batchVars, apc, akind, amodel, aerr, vdata>>

AdapterNext ==
    \/ \E model \in ModelNames : VoyageInit(model)
    \/ \E name \in ModelNames : GroqInit(name)
    \/ \E data \in DataLists : VoyageTransform(data)
    \/ \E resp \in VoyageResponses : VoyageResponse(resp)

AdapterSpec == Init /\ [][AdapterNext]_vars

\* ---- one operation after another ---------------------------------------------

\* No call is under way.
Idle == gen = "none" /\ ppc = "idle" /\ bpc = "idle"

\* The call under way has come to its end: the generator is exhausted, has
\* raised or was closed; predict() has returned or raised; batch() has
\* returned or raised; abatch() has returned or raised and none of its
\* tasks is left on the event loop.
OperationOver ==
    \/ gen \in {"exhausted", "raised", "closed"}
    \/ ppc \in {"returned", "raised"}
    \/ bmode = "batch" /\ bpc \in {"returned", "raised"}
    \/ /\ bmode = "abatch"
       /\ bpc \in {"returned", "raised"}
       /\ \A i \in DOMAIN task : task[i] \notin {"waiting", "running"}

\* The caller is done with a call and is free to make the next one on the
\* same Conversations; nothing of the finished call is kept but the
\* histories.
NextOperation ==
    /\ OperationOver
    /\ posts < MaxCalls
    /\ before' = history
    /\ posts0' = posts
    /\ payload' = << >>
    /\ gen' = "none"
    /\ smode' = None
    /\ sconv' = 0
    /\ message_content' = << >>
    /\ yielded' = << >>
    /\ lines' = << >>
    /\ serr' = None
    /\ ppc' = "idle"
    /\ pmode' = None
    /\ pconv' = 0
    /\ presp' = << >>
    /\ perr' = None
    /\ pret' = 0
    /\ bmode' = None
    /\ bpc' = "idle"
    /\ conversations' = << >>
    /\ max_concurrent' = 0
    /\ semaphore' = 0
    /\ task' = << >>
    /\ tpayload' = << >>
    /\ tresp' = << >>
    /\ tret' = << >>
    /\ completed' = << >>
    /\ results' = << >>
    /\ berr' = None
    /\ UNCHANGED <<history, posts, adapterVars>>

\* The lines a stream brings when calls follow one another: a text delta,
\* the end marker, a record without choices.
SessionLines == {<<Prefix>> \o DeltaJson(<<"a">>), <<Prefix, DoneMark>>, <<Prefix, ErrorJson>>}

\* The lists given to batch() and abatch() when calls follow one another:
\* one Conversation, and the same Conversation twice.
SessionLists == {ConversationList(1), AliasedList(2)}

\* stream, astream, predict, apredict, batch and abatch, one call at a time.
Next ==
    \/ \E c \in Convs, m \in {"stream", "astream"} : Idle /\ StreamCall(c, m)
    \/ StreamPost
    \/ StreamPostFails
    \/ StreamPostOk
    \/ \E line \in SessionLines : ReadLine(line)
    \/ Resume
    \/ IterLinesFails
    \/ EndOfStream
    \/ Close
    \/ \E c \in Convs, m \in {"predict", "apredict"} : Idle /\ PredictCall(c, m)
    \/ \E resp \in BatchResponses : PredictResponse(resp)
    \/ \E cs \in SessionLists : Idle /\ BatchCall(cs)
    \/ bmode = "batch" /\ BatchPredict
    \/ \E resp \in BatchResponses : bmode = "batch" /\ BatchResponse(resp)
    \/ bmode = "batch" /\ BatchReturn
    \/ \E cs \in SessionLists, N \in 1..MaxPermits : Idle /\ AbatchCall(cs, N)
    \/ \E i \in DOMAIN task : bmode = "abatch" /\ Admit(i)
    \/ \E i \in DOMAIN task, resp \in BatchResponses : bmode = "abatch" /\ Complete(i, resp)
    \/ \E i \in DOMAIN task : bmode = "abatch" /\ CancelItem(i)
    \/ bmode = "abatch" /\ AbatchReturn
    \/ NextOperation

Spec == Init /\ [][Next]_vars

\* ---- properties of stream() and astream() ----------------------------------

RECURSIVE Concat(_)
Concat(fragments) ==
    IF fragments = <<>> THEN <<>> ELSE Head(fragments) \o Concat(Tail(fragments))

Last(s) == s[Len(s)]

TransportErrors == {"HTTPError", "ChunkedEncodingError"}

\* C1: at every yield the accumulator is the concatenation of the fragments
\* yielded so far, and when the stream has run to its end the content of the
\* appended message is the concatenation of all yielded fragments, in order.
C1_ContentIsConcatOfFragments ==
    /\ gen \in {"iterating", "suspended"} => message_content = Concat(yielded)
    /\ gen = "exhausted" =>
          Last(history[sconv]).content = [str |-> Concat(yielded)]

C1_Witness ==
    /\ gen = "exhausted"
    /\ Len(yielded) >= 2
    /\ yielded[1] # yielded[2]

\* C2: while fragments are being emitted the history is unchanged; once the
\* transport stream has ended exactly one assistant message has been appended
\* to the Conversation of the call, with empty content when no fragment was
\* emitted, and nothing else has changed.
C2_OneAppendAtEnd ==
    /\ gen \in {"created", "posted", "iterating", "suspended"} => history = before
    /\ gen = "exhausted" =>
          /\ Len(history[sconv]) = Len(before[sconv]) + 1
          /\ SubSeq(history[sconv], 1, Len(before[sconv])) = before[sconv]
          /\ Last(history[sconv]).role = "assistant"
          /\ yielded = <<>> => Last(history[sconv]).content = [str |-> <<>>]
          /\ \A c \in Convs \ {sconv} : history[c] = before[c]

C2_Witness ==
    /\ gen = "exhausted"
    /\ yielded = <<>>
    /\ Len(lines) >= 2

\* C3: once the caller has closed or dropped the generator before the end of
\* the transport stream, no message has been appended, whatever the number
\* of fragments already emitted.
C3_AbandonAppendsNothing == gen = "closed" => history = before

C3_Witness ==
    /\ gen = "closed"
    /\ Len(yielded) >= 2

\* Prefix removal as the line format defines it: the token at the start only.
StripPrefix(line) ==
    IF line # <<>> /\ Head(line) = Prefix THEN Tail(line) ELSE line

\* A line that is empty after prefix removal or does not decode.
Noise(line) == StripPrefix(line) = <<>> \/ ~JsonLoads(StripPrefix(line)).ok

\* The loop run over a sequence of lines, from the result r so far.
RECURSIVE RunLines(_, _)
RunLines(r, ls) ==
    IF ls = <<>> \/ r.raised # None THEN r
    ELSE LET s == ProcessLine(r.message_content, Head(ls))
         IN  RunLines([raised |-> s.raised,
                       message_content |-> s.message_content,
                       yields |-> r.yields \o s.yields], Tail(ls))

WithoutNoise(ls) == SelectSeq(ls, LAMBDA l : ~Noise(l))

\* C4: a line that is empty after prefix removal or fails to decode emits
\* nothing, leaves the accumulator alone and does not end the session: the
\* fragments, the accumulator and the final content are those of the same
\* lines with the noise lines left out.
C4_NoiseLinesAreDiscarded ==
    LET r == RunLines(Skip(<<>>), WithoutNoise(lines))
    IN  /\ gen \in {"iterating", "suspended", "exhausted", "raised", "closed"} /\ lines # <<>> =>
              /\ yielded = r.yields
              /\ message_content = r.message_content
        /\ gen = "raised" /\ serr \notin TransportErrors => ~Noise(Last(lines))
        /\ gen = "exhausted" =>
              Last(history[sconv]).content = [str |-> r.message_content]

C4_Witness ==
    /\ gen = "exhausted"
    /\ Len(lines) = 3
    /\ ~Noise(lines[1]) /\ Noise(lines[2]) /\ StripPrefix(lines[2]) # <<>>
    /\ ~Noise(lines[3])
    /\ Len(yielded) = 2

\* A line that decodes as an event record and carries no text delta.
NoDeltaEvent(line) ==
    LET r == JsonLoads(StripPrefix(line))
    IN  /\ StripPrefix(line) # <<>>
        /\ r.ok
        /\ \/ "choices" \notin DOMAIN r.value
           \/ "content" \notin DOMAIN r.value.choices[1].delta

\* C5: a decoded event that carries no text delta emits nothing and does not
\* end the session: the generator does not raise on it.
C5_NoDeltaEventDoesNotEndSession ==
    lines # <<>> /\ NoDeltaEvent(Last(lines)) =>
        /\ ~(gen = "raised" /\ serr \notin TransportErrors)
        /\ gen = "exhausted" => Len(history[sconv]) = Len(before[sconv]) + 1

\* C6: when the transport fails, at the status check or while lines are
\* read, the error reaches the caller and the Conversation is as it was
\* before the call.
C6_TransportFailureAppendsNothing ==
    gen = "raised" /\ serr \in TransportErrors => history = before

C6_Witness ==
    /\ gen = "raised"
    /\ serr = "ChunkedEncodingError"
    /\ Len(yielded) >= 1

\* ---- properties of predict() and apredict() ---------------------------------

\* C7: whenever predict() or apredict() ends with an error (transport
\* failure or non-2xx status, a document missing the expected fields, a usage
\* validation failure) no message has been appended: every Conversation is
\* as it was when the call was made.
C7_FailedPredictAppendsNothing == ppc = "raised" => history = before

C7_Witness ==
    /\ ppc = "raised"
    /\ perr = "ValidationError"
    /\ posts = 2

\* C8: a successful predict() or apredict() has invoked the transport once,
\* has appended one assistant message whose content is the completion text
\* of the response, has left the earlier messages and the other
\* Conversations unchanged, and returns the Conversation it was given.
C8_SuccessfulPredictAppendsCompletion ==
    ppc = "returned" =>
        /\ posts = posts0 + 1
        /\ pret = pconv
        /\ Len(history[pconv]) = Len(before[pconv]) + 1
        /\ SubSeq(history[pconv], 1, Len(before[pconv])) = before[pconv]
        /\ Last(history[pconv]).role = "assistant"
        /\ Last(history[pconv]).content =
              [str |-> presp.json.choices[1].message.content]
        /\ \A c \in Convs \ {pconv} : history[c] = before[c]

C8_Witness ==
    /\ ppc = "returned"
    /\ pmode = "apredict"
    /\ Len(before[pconv]) >= 2

\* ---- properties of abatch() ---------------------------------------------------

InFlight == {i \in DOMAIN task : task[i] = "running"}

\* C9: during abatch() with maximum concurrency N at most N operations are
\* in flight (admitted by the gate and not yet finished), whatever the
\* number of requests and the order in which they finish.
C9_AtMostNInFlight ==
    bpc # "idle" /\ max_concurrent >= 0 => Cardinality(InFlight) <= max_concurrent

C9_Witness ==
    /\ Len(conversations) >= 3
    /\ max_concurrent = 2
    /\ Cardinality(InFlight) = 2
    /\ \E i \in DOMAIN task : task[i] = "waiting"

\* The position of the message task i appended to its Conversation: the
\* tasks on the same Conversation append in the order they finish.
FinishedAt(i) == CHOOSE j \in 1..Len(completed) : completed[j] = i

AppendedAt(i) ==
    Len(before[conversations[i]])
    + Cardinality({k \in 1..FinishedAt(i) :
                      /\ conversations[completed[k]] = conversations[i]
                      /\ task[completed[k]] = "done"})

\* C10: when every operation succeeds, abatch() returns one result per input
\* request, result i being the Conversation of request i, which holds the
\* message of request i's response, whatever the order of completion.
C10_ResultsInInputOrder ==
    bpc = "returned" =>
        /\ Len(results) = Len(conversations)
        /\ \A i \in 1..Len(conversations) :
              /\ results[i] = conversations[i]
              /\ history[results[i]][AppendedAt(i)].content =
                    [str |-> tresp[i].json.choices[1].message.content]

C10_Witness ==
    /\ bpc = "returned"
    /\ Len(results) = 3
    /\ completed = <<2, 3, 1>>

\* ---- properties of abatch(): failures, cancellation, the gate ----------------

Finished == {"done", "failed", "cancelled"}

Distinct(cs) == \A i, j \in 1..Len(cs) : cs[i] = cs[j] => i = j

\* C11: when a request of the batch fails the batch is not aborted: abatch()
\* does not raise, and the list it returns holds the other requests' results
\* in input order, the failed position being marked as an error.
C11_FailedItemIsCaptured ==
    (\E i \in DOMAIN task : task[i] = "failed") =>
        /\ bpc # "raised"
        /\ bpc = "returned" =>
              /\ Len(results) = Len(conversations)
              /\ \A j \in DOMAIN task :
                    task[j] = "done" => results[j] = conversations[j]

\* What holds of the siblings in every state: while the gate has permits
\* (N >= 1), a waiting item can enter now or when a running item ends; an
\* item whose own call succeeded has its message in its Conversation.
SiblingsUnharmed ==
    /\ (max_concurrent >= 1 /\ \E i \in DOMAIN task : task[i] = "waiting") =>
          semaphore > 0 \/ InFlight # {}
    /\ \A i \in DOMAIN task :
          task[i] = "done" =>
              history[conversations[i]][AppendedAt(i)].content =
                  [str |-> tresp[i].json.choices[1].message.content]

\* C12: the step in which an item of abatch() fails or is cancelled changes
\* no sibling: none is cancelled, a waiting sibling can still pass the gate,
\* and a sibling whose own call succeeds has its message appended.
C12_FailureLeavesSiblingsAlone ==
    [][/\ \A i \in DOMAIN task :
             (task[i] \notin Finished /\ task'[i] \in {"failed", "cancelled"}) =>
                 \A k \in DOMAIN task \ {i} : task'[k] = task[k]
       /\ SiblingsUnharmed']_vars

C12_Witness ==
    /\ max_concurrent = 1
    /\ Len(completed) = 3
    /\ task[completed[1]] = "failed"
    /\ task[completed[2]] = "cancelled"
    /\ task[completed[3]] = "done"
    /\ tpayload[completed[2]] # << >>

\* C13: an item holds a permit exactly while it is inside the gate: the
\* number of held permits is the number of items in flight, it is never
\* negative and never above N, and it is zero once every item has finished,
\* whether by success, failure or cancellation.
C13_PermitsAreReturned ==
    (bpc # "idle" /\ max_concurrent >= 0) =>
        LET held == max_concurrent - semaphore
        IN  /\ held >= 0
            /\ held <= max_concurrent
            /\ held = Cardinality(InFlight)
            /\ (\A i \in DOMAIN task : task[i] \in Finished) => held = 0

C13_Witness ==
    /\ max_concurrent = 2
    /\ Len(conversations) = 3
    /\ \A i \in DOMAIN task : task[i] \in Finished
    /\ \E i \in DOMAIN task : task[i] = "failed"
    /\ \E i \in DOMAIN task : task[i] = "cancelled" /\ tpayload[i] # << >>
    /\ semaphore = 2

\* C20: for max_concurrent >= 1, when every call to the transport comes to
\* an end, every item is eventually admitted by the gate, abatch() eventually
\* returns unless a call has failed, and when it returns each of the
\* (pairwise distinct) Conversations has had exactly one message appended.
C20_AbatchTerminates ==
    /\ \A i \in 1..MaxReq :
          (max_concurrent >= 1 /\ i \in DOMAIN task /\ task[i] = "waiting")
              ~> (i \in DOMAIN task /\ task[i] # "waiting")
    /\ (max_concurrent >= 1 /\ bpc = "gathering")
          ~> (bpc = "returned" \/ \E i \in DOMAIN task : task[i] = "failed")
    /\ [](bpc = "returned" /\ Distinct(conversations) =>
             \A i \in DOMAIN task :
                 Len(history[conversations[i]]) = Len(before[conversations[i]]) + 1)

C20_Witness ==
    /\ bpc = "returned"
    /\ max_concurrent = 1
    /\ Len(conversations) = 3
    /\ Distinct(conversations)

\* C17: the prefix token is stripped only as a prefix of the line, so the
\* fragment emitted for a line is exactly the delta text of the event record
\* the line carried, also when that text itself contains the prefix token.
C17_DeltaTextIsUnchanged ==
    gen = "suspended" =>
        LET r == JsonLoads(StripPrefix(Last(lines)))
        IN  /\ r.ok
            /\ Last(yielded) = r.value.choices[1].delta.content

\* C15: while the request of predict() is out, the payload built by
\* _format_messages has one wire record per message of the history, in the
\* same order; a record holds only role, name and content, has the message's
\* role and content, carries name exactly when the message's name is not
\* None, and the histories are what they were before the call.
C15_FormatterIsPureProjection ==
    ppc = "requested" =>
        /\ history = before
        /\ Len(payload) = Len(history[pconv])
        /\ \A i \in 1..Len(payload) :
              LET message == history[pconv][i]
                  formatted_message == payload[i]
              IN  /\ DOMAIN formatted_message \subseteq {"role", "name", "content"}
                  /\ formatted_message.role = message.role
                  /\ formatted_message.content = message.content
                  /\ "name" \in DOMAIN formatted_message <=> message.name # None
                  /\ message.name # None => formatted_message.name = message.name

\* The second predict() on a Conversation whose history holds a named
\* message, unnamed messages and the assistant's reply to the first call.
C15_Witness ==
    /\ ppc = "requested"
    /\ Len(payload) >= 4
    /\ \E i \in 1..Len(payload) : "name" \in DOMAIN payload[i]
    /\ \E i \in 1..Len(payload) : "name" \notin DOMAIN payload[i]
    /\ \E i \in 1..Len(history[pconv]) : "usage" \in DOMAIN history[pconv][i]

\* The positions of the list, up to position n, that hold Conversation c and
\* whose call has returned.
DoneUpTo(c, n) == {j \in 1..n : j \in DOMAIN task /\ conversations[j] = c /\ task[j] = "done"}

\* C18: batch() works through the list one Conversation at a time and in
\* input order: at most one predict call is in flight, the request for a
\* position is issued only when every earlier position has returned and has
\* its message appended (the request already carries the messages appended
\* by the earlier positions), and the returned list is the input list.
C18_BatchIsSequentialInOrder ==
    bpc \in {"looping", "returned", "raised"} =>
        /\ Cardinality({i \in DOMAIN task : task[i] = "running"}) <= 1
        /\ \A i \in DOMAIN task :
              task[i] # "waiting" =>
                  /\ \A j \in 1..(i - 1) : task[j] = "done"
                  /\ Len(tpayload[i]) = Len(before[conversations[i]])
                                        + Cardinality(DoneUpTo(conversations[i], i - 1))
        /\ \A c \in Convs :
              /\ Len(history[c]) = Len(before[c]) + Cardinality(DoneUpTo(c, Len(task)))
              /\ SubSeq(history[c], 1, Len(before[c])) = before[c]
        /\ results = SubSeq(conversations, 1, Len(results))
        /\ bpc = "returned" =>
              /\ results = conversations
              /\ \A i \in DOMAIN task : task[i] = "done"

\* batch() has returned a list of three Conversations, one of them twice.
C18_Witness ==
    /\ bpc = "returned"
    /\ Len(results) = 3
    /\ ~Distinct(conversations)
    /\ posts = posts0 + 3

\* C19: when predict() fails at position k, batch() raises that error at
\* once and returns no list; each position before k has appended exactly one
\* message to its Conversation, position k and the positions after it have
\* appended none and nothing else of a history has changed, and no request
\* was issued for a position after k.
C19_FailureStopsTheBatch ==
    \A k \in DOMAIN task :
        bpc # "idle" /\ task[k] = "failed" =>
            /\ bpc = "raised"
            /\ berr \in {"HTTPError", "KeyError", "IndexError", "ValidationError"}
            /\ Len(results) = k - 1
            /\ \A j \in 1..(k - 1) : task[j] = "done"
            /\ \A c \in Convs :
                  /\ Len(history[c]) = Len(before[c])
                                       + Cardinality({j \in 1..(k - 1) : conversations[j] = c})
                  /\ SubSeq(history[c], 1, Len(before[c])) = before[c]
            /\ \A j \in (k + 1)..Len(task) : task[j] = "waiting" /\ tpayload[j] = << >>
            /\ posts = posts0 + k

\* predict() has failed on the second of three distinct Conversations.
C19_Witness ==
    /\ bpc = "raised"
    /\ Len(task) = 3
    /\ Distinct(conversations)
    /\ task[2] = "failed"
    /\ Len(history[conversations[1]]) = Len(before[conversations[1]]) + 1
    /\ history[conversations[2]] = before[conversations[2]]
    /\ history[conversations[3]] = before[conversations[3]]

IsPrefix(s, t) == Len(s) <= Len(t) /\ SubSeq(t, 1, Len(s)) = s

\* The number of calls the operation under way makes on Conversation c: one
\* for each position of the list of batch() or abatch() that holds c, one
\* for the Conversation of stream(), astream(), predict() or apredict().
CallsOn(c) ==
    IF bmode # None THEN Cardinality({i \in DOMAIN conversations : conversations[i] = c})
    ELSE IF c \in {sconv, pconv} THEN 1
    ELSE 0

\* C16: over any sequence of predict, apredict, stream, astream, batch and
\* abatch calls the histories are append-only: a step leaves a history as it
\* is or puts one message at its end, the history at the start of an
\* operation and the history at the very start are prefixes of the history
\* now, and an operation has extended a history by at most one message for
\* each call it makes on that Conversation.
C16_HistoryIsAppendOnly ==
    [][/\ \A c \in Convs :
             \/ history'[c] = history[c]
             \/ /\ Len(history'[c]) = Len(history[c]) + 1
                /\ IsPrefix(history[c], history'[c])
       /\ Cardinality({c \in Convs : history'[c] # history[c]}) <= 1
       /\ \A c \in Convs :
             /\ IsPrefix(InitHistory(c), history'[c])
             /\ IsPrefix(before'[c], history'[c])
             /\ Len(history'[c]) <= Len(before'[c]) + CallsOn(c)']_vars

\* A second operation, a stream, has put its message behind the message the
\* first operation appended to the same Conversation.
C16_Witness ==
    /\ gen = "exhausted"
    /\ posts0 = 1
    /\ Len(before[sconv]) = Len(InitHistory(sconv)) + 1
    /\ Len(history[sconv]) = Len(InitHistory(sconv)) + 2

\* The allow-list of the adapter that is being constructed.
AllowList == IF akind = "VoyageEmbedding" THEN VoyageAllowedModels ELSE GroqAllowedModels

\* C14: a constructor given a model identifier that is not in the adapter's
\* allow-list raises ValueError at once: no request was or will be issued,
\* and there is no object to call transform() on.  An adapter that exists
\* holds an identifier of its allow-list.
C14_UnknownModelFailsConstruction ==
    /\ apc # "none" /\ amodel \notin AllowList =>
          /\ apc = "raised"
          /\ aerr = "ValueError"
          /\ posts = 0
          /\ payload = << >>
          /\ vcall = "idle"
    /\ apc = "constructed" => amodel \in AllowList /\ aerr = None

\* VoyageEmbedding was asked for a model its list does not hold.
C14_Witness ==
    /\ apc = "raised"
    /\ akind = "VoyageEmbedding"
    /\ amodel = "voyage-3"

\* What an item of abatch() has read and written, in every state: its
\* request was made from its own Conversation as it was before the call,
\* whatever the other items had done by then; its Conversation is as before
\* until its own call returns and has then one message more, the one made
\* from its own response; a Conversation outside the list is as before.
OwnConversationOnly ==
    /\ \A i \in DOMAIN task :
          LET c == conversations[i]
          IN  /\ task[i] \in {"running", "done", "failed"} =>
                    tpayload[i] = FormatMessages(before[c])
              /\ task[i] # "done" => history[c] = before[c]
              /\ task[i] = "done" =>
                    /\ Len(history[c]) = Len(before[c]) + 1
                    /\ IsPrefix(before[c], history[c])
                    /\ Last(history[c]).content =
                           [str |-> tresp[i].json.choices[1].message.content]
    /\ \A c \in Convs :
          (\A i \in DOMAIN task : conversations[i] # c) => history[c] = before[c]

\* C21: in abatch() over pairwise distinct Conversations a step of item i
\* changes no Conversation but the i-th, and nothing of another item: not
\* its state, its request, its response or its return value; what the items
\* share is the gate.  Under every interleaving each item has read and
\* extended its own Conversation only.
C21_ItemsTouchOwnConversationOnly ==
    [][(bmode' = "abatch" /\ Distinct(conversations')) =>
          /\ \A i \in DOMAIN task \cap DOMAIN task' :
                task'[i] # task[i] =>
                    /\ \A c \in Convs \ {conversations[i]} : history'[c] = history[c]
                    /\ \A j \in DOMAIN task \ {i} :
                          /\ task'[j] = task[j]
                          /\ tpayload'[j] = tpayload[j]
                          /\ tresp'[j] = tresp[j]
                          /\ tret'[j] = tret[j]
          /\ OwnConversationOnly']_vars

\* Three distinct Conversations, two permits: the second item has returned
\* while the first and the third are still in their calls.
C21_Witness ==
    /\ bmode = "abatch"
    /\ Len(task) = 3
    /\ Distinct(conversations)
    /\ task[1] = "running"
    /\ task[2] = "done"
    /\ task[3] = "running"
    /\ history[conversations[2]] # before[conversations[2]]

\* C22: transform() on an empty list returns an empty list and issues no
\* request; on a non-empty list it issues exactly one request and then
\* either returns one vector per item of the response's data, in the order
\* of the response, or, when the transport fails or the response is
\* malformed, raises ValueError and returns nothing.
C22_TransformReturnsVectorsOrValueError ==
    /\ vcall = "requested" => vdata # << >> /\ posts = 1
    /\ vcall \in {"returned", "raised"} /\ vdata = << >> =>
          /\ vcall = "returned"
          /\ vout = << >>
          /\ posts = 0
    /\ vcall \in {"returned", "raised"} /\ vdata # << >> =>
          /\ posts = 1
          /\ payload = [input |-> vdata, model |-> amodel]
          /\ vcall = "returned" =>
                LET items == vresp.json.obj.data.list
                IN  /\ Len(vout) = Len(items)
                    /\ \A i \in 1..Len(items) :
                          vout[i] = [value |-> items[i].obj.embedding.list]
          /\ vcall = "raised" => verr = "ValueError" /\ vout = << >>

====
